---- MODULE Spec2Model ----
(***************************************************************************)
(* Model of the two scripts of the repository.                             *)
(*                                                                         *)
(*   Pipeline A  KnowledgeArticles/PowerBI_CriblSearch/PowerBI_CriblSearch.py *)
(*               token -> submit job -> poll status -> fetch results ->    *)
(*               parse NDJSON -> build table -> bind output name           *)
(*   Pipeline B  Lookups/DynamicLookups/ActiveDirectory/main.py            *)
(*               resolve config -> query AD -> token -> upload ->          *)
(*               exists? -> create | update -> commit -> deploy            *)
(*                                                                         *)
(* Text is modelled as sequences of characters/tokens, so that strip,      *)
(* split, `in` and json.loads are computed rather than assumed.            *)
(***************************************************************************)
EXTENDS Integers, Sequences, FiniteSets, TLC

VARIABLES
    \* ---- Pipeline A -------------------------------------------------
    pc,            \* position of the script
    attempt,       \* loop variable of `for attempt in range(max_attempts)`
    job_status,    \* last value read from items[0].status ("" before any)
    nStatus,       \* GETs issued to /search/jobs/{id}
    nNonTerminal,  \* status checks that returned a non-terminal status
    terminalSeen,  \* the terminal status a check returned, "" if none yet
    clock,         \* time units spent in time.sleep
    nResults,      \* GETs issued to /search/jobs/{id}/results
    results_text,  \* body of the results response, as lines of tokens
    results,       \* the list `results`
    df_temp,       \* the DataFrame
    output,        \* globals()[output_name]
    error,         \* the exception that ended the script, "" if none
    \* ---- Pipeline B -------------------------------------------------
    bpc,           \* position in main()
    args,          \* parse_arguments(): per flag, given or None, and its value
    file_exists,   \* config_path.exists()
    file,          \* the [cribl] section of the config file: per key, set or not
    cfg,           \* the ten resolved values of lines 372-381
    ldap,          \* locals of query_ad_users: username, user_domain, ...
    calls,         \* network calls issued so far (LDAP and HTTP), in order
    token,         \* get_bearer_token's return value
    temp_filename, \* upload_lookup_file's return value
    exists_response, \* what the GET of the lookup catalog returned
    exists,        \* check_lookup_exists's return value
    written,       \* create_lookup's / update_lookup's return value
    commit_id,     \* commit_changes's return value
    deployed,      \* deploy_changes's return value
    raised,        \* the exception caught (main, query_ad_users), "" if none
    exit_code      \* process exit status, -1 while running

varsA == <<pc, attempt, job_status, nStatus, nNonTerminal, terminalSeen,
           clock, nResults, results_text, results, df_temp, output, error>>

varsB == <<bpc, args, file_exists, file, cfg, ldap, calls, token, temp_filename,
           exists_response, exists, written, commit_id, deployed, raised, exit_code>>

vars == <<varsA, varsB>>

\* ------------------------------------------------------------------
\* Bounds of the model
\* ------------------------------------------------------------------
MaxLines == 4

\* ------------------------------------------------------------------
\* Program constants of Pipeline A
\* ------------------------------------------------------------------
max_attempts == 60
sleep_seconds == 2
columns_to_remove == {"isFinished", "offset", "persistedEventCount", "totalEventCount", "job"}

\* Statuses the status endpoint may return in items[0].status.
Statuses == {"running", "done", "completed", "failed"}

\* ------------------------------------------------------------------
\* Sequence helpers
\* ------------------------------------------------------------------
SeqsUpTo(S, n) == UNION {[1..k -> S] : k \in 0..n}

RECURSIVE SelectIdx(_, _)
\* the indices i..Len(flags) at which flags is TRUE, in order
SelectIdx(flags, i) ==
    IF i > Len(flags) THEN <<>>
    ELSE IF flags[i] THEN <<i>> \o SelectIdx(flags, i + 1)
    ELSE SelectIdx(flags, i + 1)

\* ------------------------------------------------------------------
\* Text: a line is a sequence of tokens; " " and "\r" are whitespace.
\* ------------------------------------------------------------------
Whitespace == {" ", "\r"}

RECURSIVE lstrip(_)
lstrip(s) == IF s # <<>> /\ Head(s) \in Whitespace THEN lstrip(Tail(s)) ELSE s

RECURSIVE rstrip(_)
rstrip(s) ==
    IF s # <<>> /\ s[Len(s)] \in Whitespace THEN rstrip(SubSeq(s, 1, Len(s) - 1)) ELSE s

\* str.strip()
strip(s) == rstrip(lstrip(s))


\* ------------------------------------------------------------------
\* JSON, as json.loads reads one line.  Tokens: "{" and "}", a member
\* token `key:value` (a "key":value pair with its separator), and the
\* lexemes of non-object values.
\* ------------------------------------------------------------------
MemberTokens == {"a:1", "a:2", "a:null", "a:empty", "b:1", "job:1"}
AtomTokens == {"0", "1", "null", "[]"}

MemberKey(tok) ==
    CASE tok \in {"a:1", "a:2", "a:null", "a:empty"} -> "a"
      [] tok = "b:1" -> "b"
      [] tok = "job:1" -> "job"

MemberValue(tok) ==
    CASE tok \in {"a:1", "b:1", "job:1"} -> "1"
      [] tok = "a:2" -> "2"
      [] tok = "a:null" -> "null"
      [] tok = "a:empty" -> ""       \* the empty string, "a":""

\* A parsed value: an object is its set of <<key, value>> members.
JsonObject(members) == [ty |-> "object", members |-> members, lit |-> ""]
JsonAtom(lit) == [ty |-> "atom", members |-> {}, lit |-> lit]
JSONDecodeError == [ty |-> "JSONDecodeError", members |-> {}, lit |-> ""]

RECURSIVE ObjectMembers(_, _)
\* a later member with the same key replaces an earlier one, as in a dict
ObjectMembers(toks, acc) ==
    IF toks = <<>> THEN acc
    ELSE IF Head(toks) \in Whitespace THEN ObjectMembers(Tail(toks), acc)
    ELSE ObjectMembers(Tail(toks),
            {m \in acc : m[1] # MemberKey(Head(toks))}
                \cup {<<MemberKey(Head(toks)), MemberValue(Head(toks))>>})

\* json.loads(line): surrounding whitespace is skipped, one value is read
json_loads(line) ==
    LET t == strip(line) IN
    IF Len(t) >= 2 /\ t[1] = "{" /\ t[Len(t)] = "}"
       /\ \A i \in 2..(Len(t) - 1) : t[i] \in MemberTokens \cup Whitespace
    THEN JsonObject(ObjectMembers(SubSeq(t, 2, Len(t) - 1), {}))
    ELSE IF Len(t) = 1 /\ t[1] \in AtomTokens THEN JsonAtom(t[1])
    ELSE JSONDecodeError

\* bool(parsed): {} , 0, None and [] are falsy
Truthy(v) ==
    IF v.ty = "object" THEN v.members # {}
    ELSE v.lit \notin {"0", "null", "[]"}

\* ------------------------------------------------------------------
\* results_response.text.strip().split('\n')
\* The body is given as its lines (the text between the '\n').  strip()
\* on the whole text removes leading and trailing whitespace, newlines
\* included: whole blank lines at both ends go, and the first and last
\* remaining lines lose their outer whitespace.
\* ------------------------------------------------------------------
IsBlank(line) == strip(line) = <<>>

RECURSIVE DropLeadingBlank(_)
DropLeadingBlank(lines) ==
    IF lines # <<>> /\ IsBlank(Head(lines)) THEN DropLeadingBlank(Tail(lines)) ELSE lines

RECURSIVE DropTrailingBlank(_)
DropTrailingBlank(lines) ==
    IF lines # <<>> /\ IsBlank(lines[Len(lines)])
    THEN DropTrailingBlank(SubSeq(lines, 1, Len(lines) - 1))
    ELSE lines

strip_split(body) ==
    LET core == DropTrailingBlank(DropLeadingBlank(body)) IN
    IF core = <<>> THEN << <<>> >>
    ELSE IF Len(core) = 1 THEN << strip(core[1]) >>
    ELSE << lstrip(core[1]) >> \o SubSeq(core, 2, Len(core) - 1)
            \o << rstrip(core[Len(core)]) >>

\* the test `if line.strip():`
LineNotEmpty(line) == strip(line) # <<>>

\* ParsedKept without the test: every parsed value is appended
ParsedKept_Always(parsed) == TRUE

\* the test `if parsed:`
ParsedKept(parsed) == Truthy(parsed)

RECURSIVE parse_lines(_, _)
\* The loop of lines 102-106: [raised, results].  json.loads raising ends
\* the script at that line.
parse_lines(lines, acc) ==
    IF lines = <<>> THEN [raised |-> FALSE, results |-> acc]
    ELSE IF ~LineNotEmpty(Head(lines)) THEN parse_lines(Tail(lines), acc)
    ELSE LET parsed == json_loads(Head(lines)) IN
         IF parsed = JSONDecodeError THEN [raised |-> TRUE, results |-> acc]
         ELSE IF ParsedKept(parsed) THEN parse_lines(Tail(lines), Append(acc, parsed))
         ELSE parse_lines(Tail(lines), acc)

\* Lines a results body is made of.
LineSet ==
    { <<>>, <<" ">>,
      <<"{", "}">>, <<"{", " ", "}", "\r">>,
      <<"{", "a:1", "}">>, <<" ", "{", "a:2", "}">>,
      <<"{", "a:null", "job:1", "}">>,
      <<"{", "a:empty", "}">>,
      <<"0">>, <<"1">>,
      <<"{">> }

Bodies == UNION {[1..k -> LineSet] : k \in 1..MaxLines}

\* Bodies of the whole-pipeline specification: one line.
OneLineBodies == [1..1 -> LineSet]


\* ------------------------------------------------------------------
\* The table (pandas DataFrame): its columns and its rows, a row being
\* the <<column, value>> cells it holds; a missing cell and a null cell
\* are both NA.
\* ------------------------------------------------------------------
NoTable == [columns |-> {}, rows |-> <<>>, built |-> FALSE]

RowsOf(recs) == [i \in 1..Len(recs) |-> recs[i].members]

\* pd.DataFrame(results), for a list of dicts
DataFrame(recs) ==
    [columns |-> UNION {{m[1] : m \in recs[i].members} : i \in 1..Len(recs)},
     rows |-> RowsOf(recs),
     built |-> TRUE]

\* drop whose result is not assigned back: the frame is left as it was
drop_columns_Unassigned(df, cols) == df

\* df.drop(columns=cols, errors='ignore')
drop_columns(df, cols) ==
    [columns |-> df.columns \ cols,
     rows |-> [i \in 1..Len(df.rows) |-> {m \in df.rows[i] : m[1] \notin cols}],
     built |-> TRUE]

RowAllNA(row) == \A m \in row : m[2] = "null"

\* df.dropna(how='all')
dropna_all(df) ==
    LET keep == SelectIdx([i \in 1..Len(df.rows) |-> ~RowAllNA(df.rows[i])], 1) IN
    [columns |-> df.columns,
     rows |-> [i \in 1..Len(keep) |-> df.rows[keep[i]]],
     built |-> TRUE]

AllObjects(recs) == \A i \in 1..Len(recs) : recs[i].ty = "object"

\* ------------------------------------------------------------------
\* Pipeline A: the script, statement by statement
\* ------------------------------------------------------------------
\* Pipeline B not running (the two scripts share nothing).
IdleB ==
    /\ bpc = "idle"
    /\ args = <<>>
    /\ file_exists = FALSE
    /\ file = <<>>
    /\ cfg = <<>>
    /\ ldap = <<>>
    /\ calls = <<>>
    /\ token = ""
    /\ temp_filename = <<>>
    /\ exists_response = <<>>
    /\ exists = ""
    /\ written = ""
    /\ commit_id = ""
    /\ deployed = ""
    /\ raised = ""
    /\ exit_code = -1

InitA ==
    /\ IdleB
    /\ pc = "token"
    /\ attempt = 0
    /\ job_status = ""
    /\ nStatus = 0
    /\ nNonTerminal = 0
    /\ terminalSeen = ""
    /\ clock = 0
    /\ nResults = 0
    /\ results_text = <<>>
    /\ results = <<>>
    /\ df_temp = NoTable
    /\ output = NoTable
    /\ error = ""

Raise(e) == pc' = "raised" /\ error' = e

\* lines 47-58: the token request; a failed request or a response
\* without access_token raises
GetToken ==
    /\ pc = "token"
    /\ UNCHANGED varsB
    /\ \/ pc' = "submit" /\ error' = error
       \/ Raise("token")
    /\ UNCHANGED <<attempt, job_status, nStatus, nNonTerminal, terminalSeen, clock,
                   nResults, results_text, results, df_temp, output>>

\* lines 61-75: submit the job, job_id = items[0].id
SubmitJob ==
    /\ pc = "submit"
    /\ UNCHANGED varsB
    /\ \/ pc' = "poll" /\ error' = error
       \/ Raise("submit")
    /\ UNCHANGED <<attempt, job_status, nStatus, nNonTerminal, terminalSeen, clock,
                   nResults, results_text, results, df_temp, output>>

\* AfterStatus without the `elif job_status == "failed"` branch
AfterStatus_NoFailedBranch(status) ==
    IF status \in {"done", "completed"} THEN "fetch" ELSE "sleep"

\* lines 87-90: what the loop does with the status it read
AfterStatus(status) ==
    IF status \in {"done", "completed"} THEN "fetch"
    ELSE IF status = "failed" THEN "raised"
    ELSE "sleep"

\* lines 80-90: one status check
CheckStatus ==
    /\ pc = "poll"
    /\ UNCHANGED varsB
    /\ nStatus' = nStatus + 1
    /\ \/ \E status \in Statuses :
            /\ job_status' = status
            /\ pc' = AfterStatus(status)
            /\ error' = IF AfterStatus(status) = "raised" THEN "Search job failed" ELSE error
            /\ IF status \in {"done", "completed", "failed"}
               THEN terminalSeen' = status /\ nNonTerminal' = nNonTerminal
               ELSE terminalSeen' = terminalSeen /\ nNonTerminal' = nNonTerminal + 1
       \/ /\ Raise("status")
          /\ UNCHANGED <<job_status, terminalSeen, nNonTerminal>>
    /\ UNCHANGED <<attempt, clock, nResults, results_text, results, df_temp, output>>

\* HasNextAttempt off by one: range(max_attempts + 1)
HasNextAttempt_OffByOne(a) == a + 1 < max_attempts + 1

\* line 79: whether range(max_attempts) has a next value after `attempt`
HasNextAttempt(a) == a + 1 < max_attempts

\* line 92, and the loop header taking the next attempt or falling through
Sleep ==
    /\ pc = "sleep"
    /\ UNCHANGED varsB
    /\ clock' = clock + sleep_seconds
    /\ IF HasNextAttempt(attempt)
       THEN attempt' = attempt + 1 /\ pc' = "poll"
       ELSE attempt' = attempt /\ pc' = "fetch"
    /\ UNCHANGED <<job_status, nStatus, nNonTerminal, terminalSeen, nResults,
                   results_text, results, df_temp, output, error>>

\* lines 95-98: the results request
GetResults(bodies) ==
    /\ pc = "fetch"
    /\ UNCHANGED varsB
    /\ nResults' = nResults + 1
    /\ \/ \E body \in bodies : results_text' = body /\ pc' = "parse" /\ error' = error
       \/ Raise("results") /\ results_text' = results_text
    /\ UNCHANGED <<attempt, job_status, nStatus, nNonTerminal, terminalSeen, clock,
                   results, df_temp, output>>

\* lines 101-106
ParseResults ==
    /\ pc = "parse"
    /\ UNCHANGED varsB
    /\ LET r == parse_lines(strip_split(results_text), <<>>) IN
         /\ results' = r.results
         /\ IF r.raised THEN Raise("JSONDecodeError") ELSE pc' = "frame" /\ error' = error
    /\ UNCHANGED <<attempt, job_status, nStatus, nNonTerminal, terminalSeen, clock,
                   nResults, results_text, df_temp, output>>

\* lines 109-115.  For a list that holds a non-dict value the outcome of
\* pd.DataFrame is the library's: it raises, or it builds a frame of the
\* dict records.
BuildTable ==
    /\ pc = "frame"
    /\ UNCHANGED varsB
    /\ \/ /\ df_temp' = dropna_all(drop_columns(DataFrame(results), columns_to_remove))
          /\ pc' = "bind"
          /\ error' = error
       \/ /\ ~AllObjects(results)
          /\ Raise("DataFrame")
          /\ df_temp' = df_temp
    /\ UNCHANGED <<attempt, job_status, nStatus, nNonTerminal, terminalSeen, clock,
                   nResults, results_text, results, output>>

\* lines 118-121
BindOutput ==
    /\ pc = "bind"
    /\ UNCHANGED varsB
    /\ output' = df_temp
    /\ df_temp' = NoTable
    /\ pc' = "done"
    /\ UNCHANGED <<attempt, job_status, nStatus, nNonTerminal, terminalSeen, clock,
                   nResults, results_text, results, error>>

FetchA == GetResults(OneLineBodies)

NextA ==
    \/ GetToken
    \/ SubmitJob
    \/ CheckStatus
    \/ Sleep
    \/ FetchA
    \/ ParseResults
    \/ BuildTable
    \/ BindOutput

SpecA == InitA /\ [][NextA]_vars

\* The parsing and table steps alone, over every body of up to MaxLines
\* lines, from the state in which the first status check returned "done".
InitParse ==
    /\ IdleB
    /\ pc = "fetch"
    /\ attempt = 0
    /\ job_status = "done"
    /\ nStatus = 1
    /\ nNonTerminal = 0
    /\ terminalSeen = "done"
    /\ clock = 0
    /\ nResults = 0
    /\ results_text = <<>>
    /\ results = <<>>
    /\ df_temp = NoTable
    /\ output = NoTable
    /\ error = ""

FetchAny == GetResults(Bodies)

NextParse ==
    \/ FetchAny
    \/ ParseResults
    \/ BuildTable
    \/ BindOutput

SpecParse == InitParse /\ [][NextParse]_vars


\* ==================================================================
\* Claims about Pipeline A
\* ==================================================================
LoopPcs == {"poll", "sleep"}
AfterParsePcs == {"frame", "bind", "done"}

\* C1: a results request is issued only after a status check returned
\* "done" or "completed", whatever statuses the endpoint returns.
\* (Stated as claimed; the code violates it when the attempt cap is hit.)
C1_ResultsOnlyAfterDone ==
    nResults > 0 => terminalSeen \in {"done", "completed"}

\* Remaining work of the poll loop: it decreases with every loop step.
PollMeasure ==
    IF pc = "poll" THEN 2 * (60 - attempt)
    ELSE IF pc = "sleep" THEN 2 * (60 - attempt) - 1
    ELSE 0

C2_Bounded ==
    /\ nStatus <= 60
    /\ terminalSeen # "" => pc \notin LoopPcs
    /\ clock = 2 * (IF pc = "sleep" THEN nNonTerminal - 1 ELSE nNonTerminal)

C2_Step ==
    /\ pc \in LoopPcs => PollMeasure' < PollMeasure
    /\ terminalSeen # "" => nStatus' = nStatus
    /\ (pc = "poll" /\ job_status' \notin {"done", "completed", "failed"} /\ pc' # "raised")
          => pc' = "sleep"
    /\ pc = "sleep" => clock' = clock + 2

\* C2: the poll loop terminates: at most 60 status requests are issued,
\* no status request follows a terminal status (done, completed, failed),
\* and every status check that returned a non-terminal status is followed
\* by a wait of 2 seconds.
C2_PollLoopTerminates == [](C2_Bounded) /\ [][C2_Step]_vars

\* C2 witness: the cap was reached, 60 non-terminal checks and 60 waits.
C2_Witness ==
    nStatus = 60 /\ nNonTerminal = 60 /\ pc = "fetch" /\ clock = 120

C3_FailedIsFinal ==
    terminalSeen = "failed" =>
        /\ pc = "raised"
        /\ error = "Search job failed"
        /\ job_status = "failed"
        /\ nResults = 0
        /\ ~output.built

C3_NothingAfterFailed ==
    terminalSeen = "failed" =>
        /\ nStatus' = nStatus
        /\ nResults' = nResults
        /\ output' = output
        /\ terminalSeen' = "failed"
        /\ pc' = "raised"

\* C3: a status check returning "failed" ends the run with the explicit
\* error "Search job failed", and that is final: no status check, no
\* results request and no output binding follows, and the job is never
\* also taken as done.
C3_FailedEndsRun == [](C3_FailedIsFinal) /\ [][C3_NothingAfterFailed]_vars

\* C3 witness: "failed" was returned after some non-terminal checks.
C3_Witness ==
    terminalSeen = "failed" /\ nNonTerminal >= 2 /\ pc = "raised"

\* The values of the lines of `body` flagged in `flags`, in order.
ValuesAt(body, flags) ==
    LET idx == SelectIdx(flags, 1) IN
    [i \in 1..Len(idx) |-> json_loads(body[idx[i]])]

IsNonEmptyObject(v) == v.ty = "object" /\ v.members # {}

\* the non-blank lines that parse to a non-empty JSON object
NonEmptyObjectLines(body) ==
    ValuesAt(body, [i \in 1..Len(body) |->
                      ~IsBlank(body[i]) /\ IsNonEmptyObject(json_loads(body[i]))])

\* the non-blank lines that parse to a truthy JSON value
TruthyLines(body) ==
    ValuesAt(body, [i \in 1..Len(body) |->
                      ~IsBlank(body[i]) /\ Truthy(json_loads(body[i]))])

SomeLineInvalid(body) ==
    \E i \in 1..Len(body) : ~IsBlank(body[i]) /\ json_loads(body[i]) = JSONDecodeError

\* C10 as claimed: the parsed list is exactly the non-blank lines that
\* parse to a non-empty JSON object, in their original order.
C10_KeepsNonEmptyObjects ==
    pc \in AfterParsePcs => results = NonEmptyObjectLines(results_text)

\* C10 amended: the parsed list is exactly the non-blank lines that parse
\* to a truthy JSON value (for an object: a non-empty one), in their
\* original order, none duplicated; parsing completes unless a non-blank
\* line is not valid JSON, and then the script raises.
C10_KeepsTruthyValues ==
    /\ pc \in AfterParsePcs =>
          /\ ~SomeLineInvalid(results_text)
          /\ results = TruthyLines(results_text)
    /\ (pc = "raised" /\ error = "JSONDecodeError") => SomeLineInvalid(results_text)

\* C10 witness: the body {"a":1}, blank, {}, {"a":2} gave a=1 then a=2.
C10_Witness ==
    /\ pc = "frame"
    /\ results_text = << <<"{", "a:1", "}">>, <<>>, <<"{", "}">>, <<" ", "{", "a:2", "}">> >>
    /\ results = << JsonObject({<<"a", "1">>}), JsonObject({<<"a", "2">>}) >>

\* ------------------------------------------------------------------
\* The table of Pipeline A
\* ------------------------------------------------------------------
\* The table once it is built: df_temp, then the bound output.
TableBuilt == pc \in {"bind", "done"} /\ AllObjects(results)
FinalTable == IF pc = "bind" THEN df_temp ELSE output

\* a field that holds a value: not null (an empty string is a value)
HasValue(m) == m[2] # "null"

KeysOf(recs) == UNION {{m[1] : m \in recs[i].members} : i \in 1..Len(recs)}

\* records with a value in some field, whatever the column
RecordsWithAValue(recs) ==
    {i \in 1..Len(recs) : \E m \in recs[i].members : HasValue(m)}

\* records with a value in some field that is not a removed column
KeptRecords(recs) ==
    SelectIdx([i \in 1..Len(recs) |->
                 \E m \in recs[i].members : HasValue(m) /\ m[1] \notin columns_to_remove], 1)

\* C11 as claimed: a row is dropped if and only if all fields of its
\* record are empty or missing; every record with at least one non-empty
\* field, were it only in the removal list, has a row in the final table.
C11_RowDroppedIffAllEmpty ==
    TableBuilt => Len(FinalTable.rows) = Cardinality(RecordsWithAValue(results))

\* C11 amended: the final table holds, in order, one row for every record
\* that has a non-null field outside the removal list, and no other row
\* (a record whose only non-null fields are removed columns has none);
\* its columns are the records' keys less the removal list, so removing a
\* column the data does not have changes nothing, and never raises.
C11_RowDroppedIffAllKeptFieldsNull ==
    /\ TableBuilt =>
          LET keep == KeptRecords(results) IN
          /\ FinalTable.built
          /\ FinalTable.columns = KeysOf(results) \ columns_to_remove
          /\ FinalTable.rows =
                [i \in 1..Len(keep) |->
                    {m \in results[keep[i]].members : m[1] \notin columns_to_remove}]
          /\ (KeysOf(results) \cap columns_to_remove = {}) =>
                /\ FinalTable.columns = KeysOf(results)
                /\ \A i \in 1..Len(keep) : FinalTable.rows[i] = results[keep[i]].members
    /\ (pc = "raised" /\ error = "DataFrame") => ~AllObjects(results)

\* C11 witness: {"a":null,"job":1} lost its row with the job column,
\* {"a":""} and {"a":1} kept theirs, and the four removal columns the
\* data does not have were removed without error.
C11_Witness ==
    /\ pc = "done"
    /\ results = << JsonObject({<<"a", "null">>, <<"job", "1">>}),
                    JsonObject({<<"a", "">>}),
                    JsonObject({<<"a", "1">>}) >>
    /\ output.columns = {"a"}
    /\ output.rows = << {<<"a", "">>}, {<<"a", "1">>} >>

\* ==================================================================
\* Pipeline B: Lookups/DynamicLookups/ActiveDirectory/main.py
\* A string is the sequence of its characters/tokens; "" is <<>>.
\* ==================================================================
MaxVaried == 2
MaxUserLen == 3
MaxItems == 2

Fields ==
    {"client_id", "client_secret", "organization_id", "lookup_filename",
     "target_worker_group", "ad_server", "ad_user", "ad_password", "ad_domain",
     "ad_search_domain"}

\* One flag of the command line: argparse leaves it None when not given.
NotGiven == [given |-> FALSE, value |-> <<>>]
Given(v) == [given |-> TRUE, value |-> v]

\* One key of the config file's [cribl] section.
Unset == [set |-> FALSE, value |-> <<>>]
SetTo(v) == [set |-> TRUE, value |-> v]

\* A value for each field as the command line gives it, and another as
\* the config file gives it.
CliValue(f) ==
    CASE f = "ad_user" -> <<"joe", "@", "corp", ".", "com">>
      [] f = "ad_domain" -> <<"corp", ".", "com">>
      [] f = "ad_search_domain" -> <<"child", ".", "corp", ".", "com">>
      [] f = "lookup_filename" -> <<"users", ".", "csv">>
      [] f = "target_worker_group" -> <<"prod">>
      [] OTHER -> <<"cli", f>>

FileValue(f) ==
    CASE f = "ad_user" -> <<"joe">>
      [] f = "ad_domain" -> <<"CORP">>
      [] f = "ad_search_domain" -> <<"corp", ".", "com">>
      [] f = "lookup_filename" -> <<"ad", ".", "csv">>
      [] f = "target_worker_group" -> <<"staging">>
      [] OTHER -> <<"ini", f>>

\* lines 80-93: the defaults of load_config
DefaultValue(f) == IF f = "target_worker_group" THEN <<"default">> ELSE <<>>

\* lines 78-99: load_config, the value config[f]
load_config(fexists, section, f) ==
    IF fexists /\ section[f].set THEN section[f].value ELSE DefaultValue(f)

\* lines 372-381: `args.x or config["x"]`; None and "" are both falsy
Resolve(arg, conf) == IF arg.given /\ arg.value # <<>> THEN arg.value ELSE conf

\* ------------------------------------------------------------------
\* String helpers
\* ------------------------------------------------------------------
Contains(s, c) == \E i \in 1..Len(s) : s[i] = c

FirstIndex(s, c) == CHOOSE i \in 1..Len(s) : s[i] = c /\ \A j \in 1..(i - 1) : s[j] # c

\* s.split(c, 1) for a string that contains c: <<before, after>>
Split1(s, c) ==
    LET i == FirstIndex(s, c) IN << SubSeq(s, 1, i - 1), SubSeq(s, i + 1, Len(s)) >>

RECURSIVE SplitAll(_, _)
\* s.split(c)
SplitAll(s, c) ==
    IF ~Contains(s, c) THEN << s >>
    ELSE << Split1(s, c)[1] >> \o SplitAll(Split1(s, c)[2], c)

\* a or b, for strings
Or(a, b) == IF a # <<>> THEN a ELSE b

\* s.startswith(prefix)
StartsWith(s, prefix) == Len(prefix) <= Len(s) /\ SubSeq(s, 1, Len(prefix)) = prefix

\* ------------------------------------------------------------------
\* lines 102-128: parse_ad_user.  The result is a pair, or a ValueError.
\* ------------------------------------------------------------------
Pair(username, domain) == [err |-> "", username |-> username, domain |-> domain]
ValueError(msg) == [err |-> msg, username |-> <<>>, domain |-> <<>>]

parse_ad_user(ad_user, ad_domain) ==
    IF ad_user = <<>> THEN ValueError("AD user must be specified")
    ELSE LET u == strip(ad_user) IN
      IF Contains(u, "@") THEN
         LET p == Split1(u, "@") IN
         IF p[1] = <<>> THEN ValueError("Username cannot be empty")
         ELSE Pair(p[1], Or(p[2], ad_domain))
      ELSE IF Contains(u, "\\") \/ Contains(u, "/") THEN
         LET separator == IF Contains(u, "\\") THEN "\\" ELSE "/"
             p == Split1(u, separator) IN
         IF p[2] = <<>> THEN ValueError("Username cannot be empty")
         ELSE Pair(p[2], Or(p[1], ad_domain))
      ELSE IF ad_domain = <<>> THEN ValueError("AD domain must be specified when using plain username")
      ELSE Pair(u, ad_domain)

RECURSIVE JoinDc(_)
\* ','.join(f"dc={component}" for component in dc_components)
JoinDc(parts) ==
    IF Len(parts) = 1 THEN <<"dc=">> \o parts[1]
    ELSE <<"dc=">> \o parts[1] \o <<",">> \o JoinDc(Tail(parts))

NoLdap == [username |-> <<>>, user_domain |-> <<>>, full_username |-> <<>>,
           search_base |-> <<>>, parsed |-> FALSE]

\* lines 135-157 of query_ad_users: everything before the first LDAP
\* call.  [err, locals]: err is the ValueError raised, "" if none.
query_ad_prepare(c) ==
    LET r == parse_ad_user(c["ad_user"], c["ad_domain"])
        full == IF r.domain # <<>> THEN r.username \o <<"@">> \o r.domain ELSE r.username
        search_domain == Or(c["ad_search_domain"], c["ad_domain"])
        loc == [username |-> r.username, user_domain |-> r.domain,
                full_username |-> full, search_base |-> <<>>, parsed |-> TRUE]
    IN
    IF r.err # "" THEN [err |-> r.err, locals |-> NoLdap]
    ELSE IF search_domain = <<>>
         THEN [err |-> "AD domain or search domain must be specified", locals |-> loc]
    ELSE IF c["ad_server"] = <<>>
         THEN [err |-> "AD server must be specified",
               locals |-> [loc EXCEPT !.search_base = JoinDc(SplitAll(search_domain, "."))]]
    ELSE IF c["ad_password"] = <<>>
         THEN [err |-> "AD password must be specified",
               locals |-> [loc EXCEPT !.search_base = JoinDc(SplitAll(search_domain, "."))]]
    ELSE [err |-> "", locals |-> [loc EXCEPT !.search_base = JoinDc(SplitAll(search_domain, "."))]]

\* ------------------------------------------------------------------
\* Responses of the services
\* ------------------------------------------------------------------
\* PUT .../system/lookups?filename=...: the "filename" of the response
\* (<<>> when the field is missing)
UploadNames(lookup_filename) ==
    { <<>>,
      SplitAll(lookup_filename, ".")[1] \o <<".", "tmp1", ".", "csv">>,
      <<"zz", ".", "csv">> }

\* ids a lookup catalog may list (<<>>: an item without "id")
IdPool(lookup_filename) ==
    { lookup_filename,
      SplitAll(lookup_filename, ".")[1],
      lookup_filename \o <<".", "gz">>,
      <<"other", ".", "csv">>,
      <<>> }

\* GET .../system/lookups/{filename}: a failed request, or a JSON body
\* with or without "items"
RequestError == [kind |-> "request_error", has_items |-> FALSE, items |-> <<>>]
JsonBody(has_items, items) == [kind |-> "json", has_items |-> has_items, items |-> items]

ExistsResponses(lookup_filename) ==
    {RequestError, JsonBody(FALSE, <<>>)}
        \cup {JsonBody(TRUE, items) : items \in SeqsUpTo(IdPool(lookup_filename), MaxItems)}

\* lines 256-267: what upload_lookup_file returns for a response filename
\* (<<>> is None)
upload_result(response_filename, lookup_filename) ==
    IF response_filename = <<>> THEN <<>>
    ELSE IF ~StartsWith(response_filename, SplitAll(lookup_filename, ".")[1]) THEN <<>>
    ELSE response_filename

\* check_lookup_exists matching by prefix instead of equality
check_lookup_exists_Prefix(resp, lookup_filename) ==
    /\ resp.kind = "json"
    /\ \E i \in 1..Len(resp.items) : StartsWith(resp.items[i], SplitAll(lookup_filename, ".")[1])

\* lines 223-234: check_lookup_exists
check_lookup_exists(resp, lookup_filename) ==
    IF resp.kind = "request_error" THEN FALSE
    ELSE IF ~resp.has_items \/ resp.items = <<>> THEN FALSE
    ELSE \E i \in 1..Len(resp.items) : resp.items[i] = lookup_filename

\* WritePath that always creates
WritePath_AlwaysCreate(found) == "create"

\* lines 399-406: the branch of main on check_lookup_exists
WritePath(found) == IF found THEN "update" ELSE "create"

\* Proceed that ignores a failed step
Proceed_IgnoreFailure(ok, next) ==
    [bpc |-> next, code |-> IF next = "exited" THEN 0 ELSE -1]

\* main's `if not <result>: exit(1)` after a step; falling off the end of
\* main is exit status 0
Proceed(ok, next) ==
    IF ok THEN [bpc |-> next, code |-> IF next = "exited" THEN 0 ELSE -1]
    ELSE [bpc |-> "exited", code |-> 1]

Bool(b) == IF b THEN "True" ELSE "False"

\* ------------------------------------------------------------------
\* Pipeline B: main(), step by step
\* ------------------------------------------------------------------
\* Pipeline A not running.
IdleA ==
    /\ pc = "idle"
    /\ attempt = 0
    /\ job_status = ""
    /\ nStatus = 0
    /\ nNonTerminal = 0
    /\ terminalSeen = ""
    /\ clock = 0
    /\ nResults = 0
    /\ results_text = <<>>
    /\ results = <<>>
    /\ df_temp = NoTable
    /\ output = NoTable
    /\ error = ""

StartB ==
    /\ IdleA
    /\ bpc = "resolve"
    /\ cfg = [f \in Fields |-> <<>>]
    /\ ldap = NoLdap
    /\ calls = <<>>
    /\ token = "unset"
    /\ temp_filename = <<>>
    /\ exists_response = JsonBody(FALSE, <<>>)
    /\ exists = "unset"
    /\ written = "unset"
    /\ commit_id = "unset"
    /\ deployed = "unset"
    /\ raised = ""
    /\ exit_code = -1

\* The command line and the config file: a complete, valid config file
\* and an empty command line, except for up to MaxVaried fields that take
\* every combination; or no config file at all.
InitB ==
    /\ StartB
    /\ \E D \in {X \in SUBSET Fields : Cardinality(X) <= MaxVaried} :
         \E a \in [D -> {1, 2, 3}], c \in [D -> {1, 2, 3}] :
            /\ args = [f \in Fields |->
                         IF f \in D /\ a[f] = 2 THEN Given(<<>>)
                         ELSE IF f \in D /\ a[f] = 3 THEN Given(CliValue(f))
                         ELSE NotGiven]
            /\ \/ /\ file_exists = TRUE
                  /\ file = [f \in Fields |->
                               IF f \in D /\ c[f] = 2 THEN SetTo(<<>>)
                               ELSE IF f \in D /\ c[f] = 3 THEN Unset
                               ELSE SetTo(FileValue(f))]
               \/ /\ file_exists = FALSE
                  /\ file = [f \in Fields |-> Unset]

Exit(code, exc) == bpc' = "exited" /\ exit_code' = code /\ raised' = exc

\* lines 368-381: load the config and resolve the ten values
ResolveConfig ==
    /\ bpc = "resolve"
    /\ UNCHANGED varsA
    /\ \/ /\ cfg' = [f \in Fields |-> Resolve(args[f], load_config(file_exists, file, f))]
          /\ bpc' = "query_ad"
          /\ UNCHANGED <<raised, exit_code>>
       \/ /\ file_exists            \* a file configparser cannot parse
          /\ Exit(1, "configparser.Error")
          /\ cfg' = cfg
    /\ UNCHANGED <<args, file_exists, file, ldap, calls, token, temp_filename,
                   exists_response, exists, written, commit_id, deployed>>

\* line 384: query_ad_users.  The command line and the config section
\* are not read after line 381: the model drops them here.
QueryAD ==
    /\ bpc = "query_ad"
    /\ UNCHANGED varsA
    /\ args' = [f \in Fields |-> NotGiven]
    /\ file' = [f \in Fields |-> Unset]
    /\ file_exists' = FALSE
    /\ LET q == query_ad_prepare(cfg) IN
         /\ ldap' = q.locals
         /\ IF q.err # ""
            THEN Exit(1, "ValueError") /\ calls' = calls
            ELSE \/ /\ calls' = calls \o <<"ldap_bind">>
                    /\ Exit(1, "LDAPBindError")
                 \/ /\ calls' = calls \o <<"ldap_bind", "ldap_search">>
                    /\ Exit(1, "LDAPException")
                 \/ /\ calls' = calls \o <<"ldap_bind", "ldap_search">>
                    /\ Exit(1, "OSError")      \* open(output_file, 'w') fails
                 \/ /\ cfg["lookup_filename"] # <<>>
                    /\ calls' = calls \o <<"ldap_bind", "ldap_search">>
                    /\ bpc' = "token"
                    /\ UNCHANGED <<raised, exit_code>>
    /\ UNCHANGED <<cfg, token, temp_filename, exists_response, exists, written,
                   commit_id, deployed>>

\* lines 387-389: get_bearer_token and main's check
GetBearerToken ==
    /\ bpc = "token"
    /\ UNCHANGED varsA
    /\ IF cfg["client_id"] = <<>> \/ cfg["client_secret"] = <<>>
       THEN Exit(1, "ValueError") /\ UNCHANGED <<calls, token>>
       ELSE /\ calls' = calls \o <<"token">>
            /\ \/ \E t \in {"None", "", "eyJ"} :
                    /\ token' = t
                    /\ bpc' = Proceed(t \notin {"None", ""}, "upload").bpc
                    /\ exit_code' = Proceed(t \notin {"None", ""}, "upload").code
                    /\ raised' = raised
               \/ Exit(1, "KeyError") /\ token' = token
    /\ UNCHANGED <<args, file_exists, file, cfg, ldap, temp_filename, exists_response,
                   exists, written, commit_id, deployed>>

\* lines 393-395: upload_lookup_file and main's check
UploadLookupFile ==
    /\ bpc = "upload"
    /\ UNCHANGED varsA
    /\ calls' = calls \o <<"upload">>
    /\ \/ \E name \in UploadNames(cfg["lookup_filename"]) :
            LET r == upload_result(name, cfg["lookup_filename"]) IN
            /\ temp_filename' = r
            /\ bpc' = Proceed(r # <<>>, "exists").bpc
            /\ exit_code' = Proceed(r # <<>>, "exists").code
            /\ raised' = raised
       \/ /\ temp_filename' = <<>>     \* RequestException: returns None
          /\ bpc' = Proceed(FALSE, "exists").bpc
          /\ exit_code' = Proceed(FALSE, "exists").code
          /\ raised' = raised
       \/ Exit(1, "AttributeError") /\ temp_filename' = temp_filename
    /\ UNCHANGED <<args, file_exists, file, cfg, ldap, token, exists_response,
                   exists, written, commit_id, deployed>>

\* line 399: check_lookup_exists and the branch of main
CheckLookupExists ==
    /\ bpc = "exists"
    /\ UNCHANGED varsA
    /\ calls' = calls \o <<"exists">>
    /\ \/ \E resp \in ExistsResponses(cfg["lookup_filename"]) :
            /\ exists_response' = resp
            /\ exists' = Bool(check_lookup_exists(resp, cfg["lookup_filename"]))
            /\ bpc' = WritePath(check_lookup_exists(resp, cfg["lookup_filename"]))
            /\ UNCHANGED <<raised, exit_code>>
       \/ /\ Exit(1, "AttributeError")   \* "items" holds something that is no dict
          /\ UNCHANGED <<exists_response, exists>>
    /\ UNCHANGED <<args, file_exists, file, cfg, ldap, token, temp_filename,
                   written, commit_id, deployed>>

\* The PATCH or POST of the lookup, and main's check of its result.
WriteLookup(call) ==
    /\ bpc = call
    /\ UNCHANGED varsA
    /\ calls' = calls \o <<call>>
    /\ \E ok \in BOOLEAN :
         /\ written' = Bool(ok)
         /\ bpc' = Proceed(ok, "commit").bpc
         /\ exit_code' = Proceed(ok, "commit").code
    /\ UNCHANGED <<args, file_exists, file, cfg, ldap, token, temp_filename,
                   exists_response, exists, commit_id, deployed, raised>>

\* lines 401-402: update_lookup
UpdateLookup == WriteLookup("update")

\* lines 405-406: create_lookup
CreateLookup == WriteLookup("create")

\* lines 409-411: commit_changes and main's check
CommitChanges ==
    /\ bpc = "commit"
    /\ UNCHANGED varsA
    /\ calls' = calls \o <<"commit">>
    /\ \/ \E c \in {"None", "abc123"} :
            /\ commit_id' = c
            /\ bpc' = Proceed(c # "None", "deploy").bpc
            /\ exit_code' = Proceed(c # "None", "deploy").code
            /\ raised' = raised
       \/ Exit(1, "KeyError") /\ commit_id' = commit_id
    /\ UNCHANGED <<args, file_exists, file, cfg, ldap, token, temp_filename,
                   exists_response, exists, written, deployed>>

\* lines 415-417: deploy_changes, main's check, and the end of main
DeployChanges ==
    /\ bpc = "deploy"
    /\ UNCHANGED varsA
    /\ calls' = calls \o <<"deploy">>
    /\ \E ok \in BOOLEAN :
         /\ deployed' = Bool(ok)
         /\ bpc' = Proceed(ok, "exited").bpc
         /\ exit_code' = Proceed(ok, "exited").code
    /\ UNCHANGED <<args, file_exists, file, cfg, ldap, token, temp_filename,
                   exists_response, exists, written, commit_id, raised>>

NextB ==
    \/ ResolveConfig
    \/ QueryAD
    \/ GetBearerToken
    \/ UploadLookupFile
    \/ CheckLookupExists
    \/ UpdateLookup
    \/ CreateLookup
    \/ CommitChanges
    \/ DeployChanges

SpecB == InitB /\ [][NextB]_vars

\* parse_ad_user alone, over every ad_user of up to MaxUserLen characters
\* given on the command line (a config file value arrives stripped), with
\* and without an ad_domain: the program up to the directory query.
UserAlphabet == {"j", "@", "\\", "/", " "}

InitUser ==
    /\ StartB
    /\ file_exists = TRUE
    /\ \E u \in SeqsUpTo(UserAlphabet, MaxUserLen), d \in {Unset, SetTo(<<"corp", ".", "com">>)} :
         /\ args = [f \in Fields |-> IF f = "ad_user" THEN Given(u) ELSE NotGiven]
         /\ file = [f \in Fields |->
                      IF f = "ad_user" THEN Unset
                      ELSE IF f = "ad_domain" THEN d
                      ELSE SetTo(FileValue(f))]

NextUser ==
    \/ ResolveConfig
    \/ QueryAD

SpecUser == InitUser /\ [][NextUser]_vars

\* ==================================================================
\* Claims about Pipeline B
\* ==================================================================
IsPrefix(s, t) == Len(s) <= Len(t) /\ SubSeq(t, 1, Len(s)) = s

Count(s, c) == Cardinality({i \in 1..Len(s) : s[i] = c})

UpTo(call, write) ==
    CASE call = "query" -> <<"ldap_bind", "ldap_search">>
      [] call = "token" -> <<"ldap_bind", "ldap_search", "token">>
      [] call = "upload" -> <<"ldap_bind", "ldap_search", "token", "upload">>
      [] call = "exists" -> <<"ldap_bind", "ldap_search", "token", "upload", "exists">>
      [] call = "write" -> <<"ldap_bind", "ldap_search", "token", "upload", "exists", write>>
      [] call = "commit" ->
           <<"ldap_bind", "ldap_search", "token", "upload", "exists", write, "commit">>
      [] call = "deploy" ->
           <<"ldap_bind", "ldap_search", "token", "upload", "exists", write, "commit", "deploy">>

CallsAre(call) == calls = UpTo(call, "create") \/ calls = UpTo(call, "update")

AllStepsSucceeded ==
    /\ raised = ""
    /\ token \notin {"unset", "None", ""}
    /\ temp_filename # <<>>
    /\ written = "True"
    /\ commit_id \notin {"unset", "None"}
    /\ deployed = "True"

C4_OrderAndExit ==
    \* the requests follow the fixed order
    /\ \/ IsPrefix(calls, UpTo("deploy", "create"))
       \/ IsPrefix(calls, UpTo("deploy", "update"))
    \* exit status 0 exactly on full success, and then every step has run
    /\ exit_code = 0 <=> (bpc = "exited" /\ AllStepsSucceeded)
    /\ exit_code = 0 => CallsAre("deploy")
    /\ bpc = "exited" <=> exit_code \in {0, 1}
    \* a failed step exits with 1 at once, its own request being the last
    /\ raised # "" => exit_code = 1
    /\ token \in {"None", ""} => exit_code = 1 /\ CallsAre("token")
    /\ (Contains(calls, "upload") /\ temp_filename = <<>>) => exit_code = 1 /\ CallsAre("upload")
    /\ written = "False" => exit_code = 1 /\ CallsAre("write")
    /\ commit_id = "None" => exit_code = 1 /\ CallsAre("commit")
    /\ deployed = "False" => exit_code = 1 /\ CallsAre("deploy")

C4_ExitIsFinal == exit_code # -1 => calls' = calls /\ exit_code' = exit_code

\* C4: the requests of Pipeline B are issued in the order directory query,
\* token, upload, existence check, create-or-update, commit, deploy; the
\* exit status is 0 exactly when every step succeeded; a failing step
\* (token None, upload None, create/update False, commit id missing,
\* deploy False, an exception) exits with status 1 and no later request
\* is issued.
C4_StepsInOrderExitStatus == [](C4_OrderAndExit) /\ [][C4_ExitIsFinal]_vars

\* C4 witness: a full run that exited 0 through the update path.
C4_Witness ==
    exit_code = 0 /\ calls = UpTo("deploy", "update")

\* C5: in one run at most one of create_lookup and update_lookup is
\* called, once; update exactly when the existence check returned true,
\* create exactly when it returned false.
C5_CreateXorUpdate ==
    /\ Count(calls, "create") + Count(calls, "update") <= 1
    /\ Contains(calls, "update") => exists = "True"
    /\ Contains(calls, "create") => exists = "False"
    /\ (exists = "True" /\ bpc \in {"commit", "deploy"}) => Count(calls, "update") = 1
    /\ (exists = "False" /\ bpc \in {"commit", "deploy"}) => Count(calls, "create") = 1
    /\ (exists = "True" /\ bpc \notin {"exited"}) => bpc \in {"update", "commit", "deploy"}
    /\ (exists = "False" /\ bpc \notin {"exited"}) => bpc \in {"create", "commit", "deploy"}
    /\ written # "unset" => Count(calls, "create") + Count(calls, "update") = 1

\* C5 witness: the check returned true and the lookup was updated.
C5_Witness ==
    exists = "True" /\ Count(calls, "update") = 1 /\ written = "True" /\ bpc = "commit"

ExistsChecked == exists # "unset"

ListsExactId ==
    /\ exists_response.kind = "json"
    /\ \E i \in 1..Len(exists_response.items) :
          exists_response.items[i] = cfg["lookup_filename"]

\* C6: a failed request in the existence check is not fatal: it returns
\* false and the run continues on the create path (POST), as for a
\* catalog without the id; the check returns true only when an item's id
\* equals the requested filename exactly.
C6_ExistsSoftFail ==
    ExistsChecked =>
        /\ exists = "True" <=> ListsExactId
        /\ exists_response.kind = "request_error" =>
              /\ exists = "False"
              /\ ~Contains(calls, "update")
              /\ bpc = "create" \/ Contains(calls, "create")
              /\ (bpc = "create") => exit_code = -1

\* C6 witness: the request failed and the lookup was then created.
C6_Witness ==
    /\ exists_response.kind = "request_error"
    /\ exists = "False"
    /\ calls = UpTo("write", "create")
    /\ written = "True"

RequiredMissing ==
    \/ cfg["client_id"] = <<>>
    \/ cfg["client_secret"] = <<>>
    \/ cfg["ad_user"] = <<>>
    \/ cfg["ad_server"] = <<>>
    \/ cfg["ad_password"] = <<>>
    \/ (~Contains(cfg["ad_user"], "@") /\ ~Contains(cfg["ad_user"], "\\")
          /\ ~Contains(cfg["ad_user"], "/") /\ cfg["ad_domain"] = <<>>)

\* C7 as claimed: in a run where a required value (client id, client
\* secret, AD user, AD domain for a bare user, AD server, AD password) is
\* missing, the process exits non-zero and no LDAP or HTTP call is made.
C7_ConfigErrorBeforeNetwork ==
    (bpc \notin {"resolve", "query_ad"} /\ raised # "configparser.Error" /\ RequiredMissing) =>
        calls = <<>> /\ exit_code = 1

Expected(f) ==
    IF args[f].given THEN args[f].value
    ELSE IF file_exists /\ file[f].set THEN file[f].value
    ELSE IF f = "target_worker_group" THEN <<"default">>
    ELSE <<>>

\* C8 as claimed: for each of the ten fields, the resolved value is the
\* command-line value whenever one is present; otherwise the config-file
\* value; otherwise the default ("" or "default" for the target group).
C8_CliOverridesFile ==
    bpc = "query_ad" => \A f \in Fields : cfg[f] = Expected(f)

\* query_ad_users was entered (the config file was readable)
QueryRan == bpc \notin {"resolve", "query_ad"} /\ raised # "configparser.Error"

Bare(u) == ~Contains(u, "@") /\ ~Contains(u, "\\") /\ ~Contains(u, "/")

ParseRaised == ~ldap.parsed /\ raised = "ValueError" /\ exit_code = 1

ParsedAs(username, domain) ==
    ldap.parsed /\ ldap.username = username /\ ldap.user_domain = domain

\* C9 as claimed: parse_ad_user is total: user@domain gives (user,
\* domain), DOMAIN\user and DOMAIN/user give (user, DOMAIN), a bare user
\* gives (user, ad_domain) or, without ad_domain, the configuration
\* error; every input gives a pair with a non-empty username or the error.
C9_ParseAdUserTotal ==
    QueryRan =>
      LET u == strip(cfg["ad_user"])
          d == cfg["ad_domain"] IN
        /\ ParseRaised \/ (ldap.parsed /\ ldap.username # <<>>)
        /\ (Contains(u, "@") /\ ~Contains(u, "\\") /\ ~Contains(u, "/")
              /\ Split1(u, "@")[1] # <<>> /\ Split1(u, "@")[2] # <<>>)
             => ParsedAs(Split1(u, "@")[1], Split1(u, "@")[2])
        /\ (Contains(u, "\\") /\ ~Contains(u, "@") /\ ~Contains(u, "/")
              /\ Split1(u, "\\")[1] # <<>> /\ Split1(u, "\\")[2] # <<>>)
             => ParsedAs(Split1(u, "\\")[2], Split1(u, "\\")[1])
        /\ (Contains(u, "/") /\ ~Contains(u, "@") /\ ~Contains(u, "\\")
              /\ Split1(u, "/")[1] # <<>> /\ Split1(u, "/")[2] # <<>>)
             => ParsedAs(Split1(u, "/")[2], Split1(u, "/")[1])
        /\ (Bare(u) /\ u # <<>> /\ d # <<>>) => ParsedAs(u, d)
        /\ (Bare(u) /\ d = <<>>) => ParseRaised

====
